---- MODULE Spec2Model ----
(***************************************************************************)
(* A model of the Quobot game state engine: nomic/game.py (the Game        *)
(* aggregate, its lock protocol, rule loading, save/export, proposal       *)
(* refresh and repost, the registry of games), nomic/quantity.py (the      *)
(* quantities and their registry) and the proposals cog                    *)
(* (cogs/proposals.py) that calls the engine.                              *)
(*                                                                         *)
(* Scheduling: one event-loop thread runs every task; a task runs without  *)
(* interruption from one await to the next, so every action below is the   *)
(* code between two suspension points.  A task's pc names the await it is  *)
(* suspended at.                                                           *)
(***************************************************************************)
EXTENDS Integers, Sequences, FiniteSets, TLC

\* ------------------------------------------------------------------ bounds
MaxProposals == 2   \* proposals in the persisted store at start-up
MaxSends == 3       \* messages the channel accepts after start-up
MaxArgs == 2        \* ids passed to one refresh/repost call
MaxTime == 2        \* distinct values of utils.now()

Tasks == {"t1", "t2"}
Users == {"u1", "u2"}
Guild == "guild"

VARIABLES
    GAMES,      \* game.py _GAMES: guild id -> Game
    db,         \* Game.db: the mapping store of the guild
    disk,       \* what db.save() last flushed
    channel,    \* ids of the messages that exist in the proposals channel
    next_id,    \* id the channel gives the next message sent
    task        \* per task: the await it is suspended at and its locals

vars == <<GAMES, db, disk, channel, next_id, task>>

\* ------------------------------------------------------------------ values

\* An optional value (None or x) is the set {} or {x}.
None == {}
Some(x) == {x}
The(s) == CHOOSE x \in s : TRUE

\* A proposal id as a caller passes it: an int, or a value of another type.
Ids == [int : {TRUE}, v : 0..(MaxProposals + 1)] \cup {[int |-> FALSE, v |-> 0]}
IntId(i) == [int |-> TRUE, v |-> i]
ArgSeqs == UNION {[1..k -> Ids] : k \in 0..MaxArgs}
IntArgSeqs == {ns \in ArgSeqs : \A j \in DOMAIN ns : ns[j].int}

RECURSIVE SortedSeq(_)
\* sorted(S) for a set of ints
SortedSeq(S) ==
    IF S = {} THEN <<>>
    ELSE LET lo == CHOOSE x \in S : \A y \in S : x <= y
         IN <<lo>> \o SortedSeq(S \ {lo})

Range(s) == {s[j] : j \in DOMAIN s}
Min(S) == CHOOSE x \in S : \A y \in S : x <= y

\* utils.dedupe: the first occurrence of every element, in order
dedupe(ns) ==
    LET keep == {j \in DOMAIN ns : \A h \in 1..(j - 1) : ns[h] # ns[j]}
        idx == SortedSeq(keep)
    IN [j \in DOMAIN idx |-> ns[idx[j]]]

\* threading.get_ident(): every task runs in the event loop's one thread
get_ident(t) == "MainThread"

\* ------------------------------------------------------------------ store

\* The persisted proposals the model starts from: the i-th was submitted at
\* time i, by the two users in turn, and its message, if it has one, has id i.
AuthorOf(i) == IF i % 2 = 1 THEN "u1" ELSE "u2"

StoredLists(ns) ==
    UNION {{ps \in [1..len -> [n : ns, author : Users,
                               timestamp : 1..MaxProposals,
                               message : {None} \cup {Some(i) : i \in 1..MaxProposals}]] :
              \A i \in 1..len : /\ ps[i].author = AuthorOf(i)
                                /\ ps[i].timestamp = i
                                /\ ps[i].message \in {None, Some(i)}}
           : len \in 0..MaxProposals}

\* Stores written by save(): entry i has n = i
SavedLists == {ps \in StoredLists(1..MaxProposals) : \A i \in DOMAIN ps : ps[i].n = i}

EmptyActivity == {}

\* ------------------------------------------------------------------ names

\* A string is the sequence of its characters.
MaxNameLen == 32    \* `if len(name) > 32`
MaxAliases == 2     \* aliases passed to one call

\* ord(c) of the characters used
CharCode(c) ==
    CASE c = "!" -> 33 [] c = "A" -> 65 [] c = "B" -> 66 [] c = "a" -> 97 [] c = "b" -> 98

\* str.lower()
LowerChar(c) == CASE c = "A" -> "a" [] c = "B" -> "b" [] OTHER -> c
lower(name) == [i \in DOMAIN name |-> LowerChar(name[i])]

\* [0-9a-z], as far as the characters used go
LowerAlnum == {"a", "b"}

RECURSIVE StrLess(_, _)
\* a < b for strings: by code point, a proper prefix first
StrLess(a, b) ==
    IF b = <<>> THEN FALSE
    ELSE IF a = <<>> THEN TRUE
    ELSE IF Head(a) # Head(b) THEN CharCode(Head(a)) < CharCode(Head(b))
    ELSE StrLess(Tail(a), Tail(b))

RECURSIVE sorted(_)
\* sorted(xs) for a list of strings
sorted(xs) ==
    IF xs = <<>> THEN <<>>
    ELSE LET rest == sorted(Tail(xs))
             before == SelectSeq(rest, LAMBDA y : StrLess(y, Head(xs)))
             after == SelectSeq(rest, LAMBDA y : ~StrLess(y, Head(xs)))
         IN before \o <<Head(xs)>> \o after

\* A name longer than the limit
LongName == [i \in 1..(MaxNameLen + 1) |-> "a"]

\* The strings callers pass as names and aliases
NameInputs == {<<"a">>, <<"A">>, <<"b">>, <<"a", "!">>, LongName}
AliasInputs == UNION {[1..k -> NameInputs] : k \in 0..MaxAliases}

\* ------------------------------------------------------------------ values

\* A number is twice its value (x2) and whether it is a float: ints and the
\* floats with fractional part 0 or 1/2.
IntVal(i) == [x2 |-> 2 * i, float |-> FALSE]
FloatVal(x2) == [x2 |-> x2, float |-> TRUE]
Values == {IntVal(0), IntVal(1), FloatVal(2), FloatVal(1)}

\* a == b on numbers: 1 == 1.0
NumEq(a, b) == a.x2 = b.x2

\* `if int(value) == value: value = int(value)`
coerce(value) == IF value.x2 % 2 = 0 THEN [x2 |-> value.x2, float |-> FALSE] ELSE value

\* ------------------------------------------------------------------ quantities

\* The registry and the 'quantities' document are functions from name to
\* record; players is a function from the players stored to their values.
NoPlayers == [u \in {} |-> IntVal(0)]
EmptyQuantities == [k \in {} |-> {}]

\* Quantity(game=self, **q): the dataclass fields as given, aliases []
\* players {} and default_value 0 being the defaults
Quantity(name, aliases) ==
    [name |-> name, aliases |-> aliases, players |-> NoPlayers, default_value |-> IntVal(0)]

\* An export that writes the aliases in reverse order
Quantity_export_reversed(q) ==
    [name |-> q.name,
     aliases |-> [i \in DOMAIN q.aliases |-> q.aliases[Len(q.aliases) + 1 - i]],
     players |-> q.players,
     default_value |-> q.default_value]

\* Quantity.export
Quantity_export(q) ==
    [name |-> q.name,
     aliases |-> sorted(q.aliases),
     players |-> q.players,
     default_value |-> q.default_value]

\* {k: q.export() for k, q in self.quantities.items()}
export_quantities(qs) == [k \in DOMAIN qs |-> Quantity_export(qs[k])]

\* {k: Quantity(game=self, **q) for k, q in ...items()}
LoadQuantities(doc) ==
    [k \in DOMAIN doc |->
        [name |-> doc[k].name, aliases |-> doc[k].aliases,
         players |-> doc[k].players, default_value |-> doc[k].default_value]]

\* Quantity.get
Quantity_get(q, player) ==
    IF player \in DOMAIN q.players THEN q.players[player] ELSE q.default_value

\* A set that stores the value whatever the default is
Quantity_set_always(q, player, value) ==
    [q EXCEPT !.players = [u \in DOMAIN q.players \cup {player} |->
                             IF u = player THEN coerce(value) ELSE q.players[u]]]

\* Quantity.set
Quantity_set(q, player, value) ==
    LET v == coerce(value) IN
    IF NumEq(v, q.default_value)
    THEN [q EXCEPT !.players = [u \in DOMAIN q.players \ {player} |-> q.players[u]]]
    ELSE [q EXCEPT !.players = [u \in DOMAIN q.players \cup {player} |->
                                  IF u = player THEN v ELSE q.players[u]]]

\* ------------------------------------------------------------------ rules

MaxChildren == 2    \* children an entry of the rules document lists

RuleTags == {"root", "a", "b"}

\* An entry of the flat rules document: the declared parent (a tag or None)
\* and the tags of the children, in order
RuleEntries ==
    [parent : {None} \cup {Some(g) : g \in RuleTags},
     children : UNION {[1..k -> RuleTags] : k \in 0..MaxChildren}]

\* mutget(self.db, 'rules', {'root': {'tag': 'root', 'title': None, 'content': None}})
DefaultRules == [k \in {"root"} |-> [parent |-> None, children |-> <<>>]]

NoRules == [k \in {} |-> [parent |-> None, children |-> <<>>]]

\* rule.parent: the Rule of game.rules the declared parent names, or None
rule_parent(rules, rule) ==
    IF rule.parent = None THEN None
    ELSE IF The(rule.parent) \in DOMAIN rules THEN Some(rules[The(rule.parent)])
    ELSE None

RECURSIVE load_rule(_, _, _)
RECURSIVE load_children(_, _, _)

\* Game._load_rule(rules_dict, tag), st being self.rules and whether an
\* exception has been raised.  A non-root rule whose parent is None is warned
\* about and then dereferenced: None has no attribute children.
load_rule(rules_dict, st, tag) ==
    IF st.raised THEN st
    ELSE IF tag \notin DOMAIN rules_dict THEN st
    ELSE IF tag \in DOMAIN st.rules THEN st
    ELSE LET rule == rules_dict[tag]
             parent == rule_parent(st.rules, rule)
         IN IF tag # "root" /\ parent = None THEN [st EXCEPT !.raised = TRUE]
            ELSE IF tag # "root" /\ tag \notin Range(The(parent).children) THEN st
            ELSE load_children(
                    rules_dict,
                    [st EXCEPT !.rules = [k \in DOMAIN st.rules \cup {tag} |->
                                            IF k = tag THEN rule ELSE st.rules[k]]],
                    rule.children)

\* `for child in rule.children: self._load_rule(rules_dict, child)`
load_children(rules_dict, st, children) ==
    IF children = <<>> THEN st
    ELSE load_children(rules_dict, load_rule(rules_dict, st, Head(children)), Tail(children))

\* self.rules = {}; self._load_rule(mutget(self.db, 'rules', ...), 'root')
load_rules(rules_dict) == load_rule(rules_dict, [rules |-> NoRules, raised |-> FALSE], "root")

\* {k: r.export() for k, r in self.rules.items()}: a Rule exports the parent
\* and children it holds
export_rules(rules) ==
    [k \in DOMAIN rules |-> [parent |-> rules[k].parent, children |-> rules[k].children]]

\* ------------------------------------------------------------------ store

\* The store of a guild with the proposals ps, no quantity, and no 'rules'
\* key yet (the default document is then stored by mutget)
Store(ps) ==
    [proposals |-> ps, player_activity |-> EmptyActivity,
     quantities |-> EmptyQuantities, rules |-> DefaultRules]

\* ------------------------------------------------------------------ Game

\* asyncio.Lock(): not locked, no waiter
NewLock == [locked |-> FALSE, waiters |-> <<>>, woken |-> {}]

\* A load that builds the proposals in reverse store order
LoadReversed(ps) == [i \in DOMAIN ps |-> ps[Len(ps) + 1 - i]]

\* Game.__init__: one Proposal per stored entry, in store order, its fields
\* taken as stored
LoadProposals(ps) == [i \in DOMAIN ps |-> ps[i]]

\* Game.__init__.  heap holds the Proposal objects (object i was built from
\* entry i); proposals is the list of objects.  _owned_thread_id is not
\* assigned by the constructor.  instance tells the Game objects built for
\* one guild apart: the first one is 1.
Game(store) ==
    [lock |-> NewLock,
     owned_thread_id |-> "unset",
     heap |-> LoadProposals(store.proposals),
     proposals |-> [i \in DOMAIN store.proposals |-> i],
     quantities |-> LoadQuantities(store.quantities),
     rules |-> load_rules(store.rules).rules,
     player_activity |-> store.player_activity,
     instance |-> 1]

\* get_game: construct on a miss, cache, return the cached instance
get_game == IF Guild \in DOMAIN GAMES THEN GAMES[Guild] ELSE Game(db)

\* Game.has_proposal / Game.get_proposal: the object at 1-based position n,
\* or None
has_proposal(G, n) == n.int /\ 1 <= n.v /\ n.v <= Len(G.proposals)
get_proposal(G, n) == IF has_proposal(G, n) THEN Some(G.proposals[n.v]) ELSE None

\* One pass of the loop of Game._check_proposal
CheckOne(G, n) ==
    IF ~n.int THEN "TypeError"
    ELSE IF ~(1 <= n.v /\ n.v <= Len(G.proposals)) THEN "ValueError"
    ELSE "ok"

\* A validation that looks at the first id only
check_first_only(G, ns) == IF ns = <<>> THEN "ok" ELSE CheckOne(G, ns[1])

\* `for n in ns: self._check_proposal(n)`: the first failure in argument
\* order, or "ok"
check_proposal(G, ns) ==
    IF \A j \in DOMAIN ns : CheckOne(G, ns[j]) = "ok" THEN "ok"
    ELSE CheckOne(G, ns[Min({j \in DOMAIN ns : CheckOne(G, ns[j]) # "ok"})])

\* Game.assert_locked: the stamp must be the caller's thread id.  Before the
\* first __aenter__ the attribute does not exist.
assert_locked(G, t) ==
    IF G.owned_thread_id = "unset" THEN "AttributeError"
    ELSE IF G.owned_thread_id # get_ident(t) THEN "RuntimeError"
    ELSE "ok"

\* An export that leaves the proposals out
export_no_proposals(G) ==
    [proposals |-> <<>>, player_activity |-> G.player_activity,
     quantities |-> export_quantities(G.quantities), rules |-> export_rules(G.rules)]

\* Game.export: the proposals in list order, the activity map, the
\* quantities and the rules
export(G) ==
    [proposals |-> [i \in DOMAIN G.proposals |-> G.heap[G.proposals[i]]],
     player_activity |-> G.player_activity,
     quantities |-> export_quantities(G.quantities),
     rules |-> export_rules(G.rules)]

\* A release that unlocks and wakes nobody
release_no_wake(l) == [l EXCEPT !.locked = FALSE]

\* asyncio.Lock.release: unlock and wake the first waiter
release(l) ==
    [l EXCEPT !.locked = FALSE,
              !.woken = IF l.waiters # <<>> THEN @ \cup {Head(l.waiters)} ELSE @]

\* An exit that releases the lock and keeps the stamp
aexit_keeps_stamp(G) == [G EXCEPT !.lock = release(G.lock)]

\* Game.__aexit__
aexit(G) == [G EXCEPT !.owned_thread_id = "None", !.lock = release(G.lock)]

\* ------------------------------------------------------------------ tasks

\* A task runs one command, which makes at most one call on the Game, bare
\* or as the body of an `async with game:` block (held tells whether the task
\* is inside the block).  pc: "ready" before the call, the await the task is
\* suspended at during it, "exit" at the end of the block, "done" after the
\* command.  call and res name the
\* entry point last called and how it ended, args the arguments of a call on
\* the quantity registry, sent what the call has sent (the messages of
\* repost_proposal, the rules of repost_rules); the rest are the locals of
\* refresh_proposal and repost_proposal.
Idle ==
    [pc |-> "ready", held |-> FALSE, call |-> "none", res |-> "none",
     args |-> <<>>, sent |-> <<>>,
     todo |-> <<>>, rng |-> <<>>, lo |-> 0, k |-> 0, msgs |-> {}, m |-> None]

Calling(t, name) == [task[t] EXCEPT !.call = name, !.res = "none"]

\* The call of task t (record T) ends with outcome r ("ok" or the exception
\* raised) in game state G.  An exception leaves the task's `async with`
\* block, whose __aexit__ runs in the same step, and ends the command.  The
\* cog's refresh handler unpacks the None that refresh_proposal returns.
Finish(t, T, G, r) ==
    /\ GAMES' = (Guild :> (IF r # "ok" /\ T.held THEN aexit(G) ELSE G))
    /\ task' = [task EXCEPT ![t] =
                  [Idle EXCEPT !.pc = IF T.held /\ r = "ok" THEN "exit" ELSE "done",
                               !.held = (T.held /\ r = "ok"),
                               !.call = T.call,
                               !.res = IF r = "ok" /\ T.call = "Voting_refresh_proposal"
                                       THEN "TypeError" ELSE r]]

\* ------------------------------------------------------------------ lock

\* An __aenter__ that does not wait for the lock
aenter_no_wait(t) ==
    /\ task[t].pc = "ready" /\ ~task[t].held
    /\ GAMES' = (Guild :> [get_game EXCEPT !.lock.locked = TRUE,
                                           !.owned_thread_id = get_ident(t)])
    /\ task' = [task EXCEPT ![t] = [Idle EXCEPT !.held = TRUE]]
    /\ UNCHANGED <<db, disk, channel, next_id>>

\* `async with game:` reaches Game.__aenter__.  asyncio.Lock.acquire returns
\* at once when the lock is free and nobody waits; the stamp is then written
\* in the same step.  Otherwise the task queues.
aenter(t) ==
    /\ task[t].pc = "ready" /\ ~task[t].held
    /\ LET G == get_game IN
       IF ~G.lock.locked /\ G.lock.waiters = <<>>
       THEN /\ GAMES' = (Guild :> [G EXCEPT !.lock.locked = TRUE,
                                            !.owned_thread_id = get_ident(t)])
            /\ task' = [task EXCEPT ![t] = [Idle EXCEPT !.held = TRUE]]
       ELSE /\ GAMES' = (Guild :> [G EXCEPT !.lock.waiters = Append(@, t)])
            /\ task' = [task EXCEPT ![t] = [Idle EXCEPT !.pc = "acquire"]]
    /\ UNCHANGED <<db, disk, channel, next_id>>

\* A woken waiter that takes the lock and leaves the stamp as it was
acquired_unstamped(t) ==
    /\ task[t].pc = "acquire"
    /\ Guild \in DOMAIN GAMES
    /\ t \in GAMES[Guild].lock.woken
    /\ LET G == GAMES[Guild] IN
       GAMES' = (Guild :> [G EXCEPT
                    !.lock = [locked |-> TRUE,
                              waiters |-> SelectSeq(G.lock.waiters, LAMBDA w : w # t),
                              woken |-> G.lock.woken \ {t}]])
    /\ task' = [task EXCEPT ![t] = [Idle EXCEPT !.held = TRUE]]
    /\ UNCHANGED <<db, disk, channel, next_id>>

\* A woken waiter resumes inside acquire, takes the lock, and __aenter__
\* stamps the owner.
acquired(t) ==
    /\ task[t].pc = "acquire"
    /\ Guild \in DOMAIN GAMES
    /\ t \in GAMES[Guild].lock.woken
    /\ LET G == GAMES[Guild] IN
       GAMES' = (Guild :> [G EXCEPT
                    !.lock = [locked |-> TRUE,
                              waiters |-> SelectSeq(G.lock.waiters, LAMBDA w : w # t),
                              woken |-> G.lock.woken \ {t}],
                    !.owned_thread_id = get_ident(t)])
    /\ task' = [task EXCEPT ![t] = [Idle EXCEPT !.held = TRUE]]
    /\ UNCHANGED <<db, disk, channel, next_id>>

\* The `async with` block ends normally: Game.__aexit__
leave(t) ==
    /\ task[t].pc \in {"ready", "exit"} /\ task[t].held
    /\ GAMES' = (Guild :> aexit(GAMES[Guild]))
    /\ task' = [task EXCEPT ![t] =
                  [Idle EXCEPT !.pc = "done", !.call = task[t].call, !.res = task[t].res,
                               !.args = task[t].args]]
    /\ UNCHANGED <<db, disk, channel, next_id>>

\* ------------------------------------------------------------------ save

\* A clear that leaves the store as it is
db_keep(store) == store

\* self.db.clear(): the store without any key
db_clear(store) == [k \in {} |-> store[k]]

\* self.db.update(doc): the keys of doc are written, the others stay
db_update(store, doc) ==
    [k \in DOMAIN store \cup DOMAIN doc |-> IF k \in DOMAIN doc THEN doc[k] ELSE store[k]]

\* Game.save, from the call to its return: no await inside.  The store is
\* cleared, the export is written into it, and it is flushed.
save(t) ==
    /\ task[t].pc = "ready"
    /\ LET G == get_game
           a == assert_locked(G, t)
       IN /\ Finish(t, Calling(t, "save"), G, a)
          /\ IF a = "ok"
             THEN /\ db' = db_update(db_clear(db), export(G))
                  /\ disk' = db_update(db_clear(db), export(G))
             ELSE UNCHANGED <<db, disk>>
    /\ UNCHANGED <<channel, next_id>>

\* Game.record_activity(user), utils.now() being `now`
record_activity(t, user, now) ==
    /\ task[t].pc = "ready"
    /\ LET G == get_game
           a == assert_locked(G, t)
           G2 == [G EXCEPT !.player_activity =
                    {e \in @ : e[1] # user} \cup {<<user, now>>}]
       IN Finish(t, Calling(t, "record_activity"), IF a = "ok" THEN G2 ELSE G, a)
    /\ UNCHANGED <<db, disk, channel, next_id>>

\* ------------------------------------------------------------------ remove

\* The list without its k-th proposal, every later one numbered one less
Renumber(G, k) ==
    LET rest == [i \in 1..(Len(G.proposals) - 1) |->
                    IF i < k THEN G.proposals[i] ELSE G.proposals[i + 1]]
        later == {rest[i] : i \in k..Len(rest)}
    IN [G EXCEPT !.proposals = rest,
                 !.heap = [o \in DOMAIN G.heap |->
                             IF o \in later THEN [G.heap[o] EXCEPT !.n = @ - 1]
                             ELSE G.heap[o]]]

\* Game.remove_proposal for one id n: validate, remove and renumber, save
remove_proposal(t, n) ==
    /\ task[t].pc = "ready"
    /\ LET G == get_game
           T == Calling(t, "remove_proposal")
           a == assert_locked(G, t)
           c == CheckOne(G, n)
           G2 == Renumber(G, n.v)
       IN IF a # "ok" THEN Finish(t, T, G, a) /\ UNCHANGED <<db, disk>>
          ELSE IF c # "ok" THEN Finish(t, T, G, c) /\ UNCHANGED <<db, disk>>
          ELSE Finish(t, T, G2, "ok") /\ db' = export(G2) /\ disk' = export(G2)
    /\ UNCHANGED <<channel, next_id>>

\* ------------------------------------------------------------------ refresh

\* Proposal.fetch_message on a proposal whose message id reads m: None when
\* it has none, the message when the channel has it, NotFound otherwise
FetchOutcome(m) ==
    IF m = None THEN "None"
    ELSE IF The(m) \in channel THEN "found"
    ELSE "NotFound"

\* The message id of proposal object o
message_id(G, o) == G.heap[o].message

\* refresh_proposal's loop reaches the ids `todo`: done when none is left,
\* else get_proposal(todo[1]) and suspend in its fetch_message().
RefreshLoop(t, T, G, todo) ==
    IF todo = <<>> THEN Finish(t, T, G, "ok")
    ELSE LET p == get_proposal(G, IntId(todo[1])) IN
         IF p = None THEN Finish(t, T, G, "AttributeError")
         ELSE /\ GAMES' = (Guild :> G)
              /\ task' = [task EXCEPT ![t] =
                            [T EXCEPT !.pc = "fetch_message", !.todo = todo,
                                      !.m = message_id(G, The(p)),
                                      !.rng = <<>>, !.lo = 0, !.k = 0, !.msgs = {}]]

\* Game.refresh_proposal(*ns) from its call to its first await
RefreshFrom(t, T, G, ns) ==
    LET a == assert_locked(G, t)
        c == check_proposal(G, ns)
    IN IF a # "ok" THEN Finish(t, T, G, a)
       ELSE IF c # "ok" THEN Finish(t, T, G, c)
       ELSE RefreshLoop(t, T, G, SortedSeq({ns[j].v : j \in DOMAIN ns}))

\* The first id of the range, taken as the first argument
FirstArg(ns) == ns[1].v

\* min(ns), the first id of the range repost_proposal works on
RangeStart(ns) == Min({ns[j].v : j \in DOMAIN ns})

\* Game.repost_proposal(*ns) from its call to its first await: the range
\* [min(ns), len] and its proposal objects are fixed here.
RepostFrom(t, T, G, ns) ==
    LET a == assert_locked(G, t)
        c == check_proposal(G, ns)
    IN IF a # "ok" THEN Finish(t, T, G, a)
       ELSE IF c # "ok" THEN Finish(t, T, G, c)
       ELSE IF ns = <<>> THEN Finish(t, T, G, "ValueError")
       ELSE LET lo == RangeStart(ns)
                rng == [i \in 1..(Len(G.proposals) - lo + 1) |-> G.proposals[lo + i - 1]]
            IN /\ GAMES' = (Guild :> G)
               /\ task' = [task EXCEPT ![t] =
                             [T EXCEPT !.pc = "rp_fetch_message", !.lo = lo,
                                       !.rng = rng, !.k = 1, !.msgs = {},
                                       !.m = message_id(G, rng[1]), !.todo = <<>>]]

\* A caller awaits game.refresh_proposal(*ns), inside `async with` or not
refresh_proposal(t, ns) ==
    /\ task[t].pc = "ready"
    /\ RefreshFrom(t, Calling(t, "refresh_proposal"), get_game, ns)
    /\ UNCHANGED <<db, disk, channel, next_id>>

\* A caller awaits game.repost_proposal(*ns), inside `async with` or not
repost_proposal(t, ns) ==
    /\ task[t].pc = "ready"
    /\ RepostFrom(t, Calling(t, "repost_proposal"), get_game, ns)
    /\ UNCHANGED <<db, disk, channel, next_id>>

\* refresh_proposal: `m = await proposal.fetch_message()` completes.  On None
\* the next line fails (None has no clear_reactions); on NotFound the except
\* branch calls repost_proposal(n) and returns what it returns.
fetch_message(t) ==
    /\ task[t].pc = "fetch_message"
    /\ LET T == task[t]
           G == GAMES[Guild]
           r == FetchOutcome(T.m)
       IN IF r = "None" THEN Finish(t, T, G, "AttributeError")
          ELSE IF r = "found"
          THEN /\ task' = [task EXCEPT ![t].pc = "edit"]
               /\ UNCHANGED GAMES
          ELSE RepostFrom(t, T, G, <<IntId(T.todo[1])>>)
    /\ UNCHANGED <<db, disk, channel, next_id>>

\* refresh_proposal: the awaits on the fetched message m (clear_reactions,
\* edit, add_reaction three times) complete.  Each only needs m to exist and
\* raises NotFound when it does not, and a deleted message stays deleted, so
\* the five awaits are one step, taken when the last of them completes.
edit(t) ==
    /\ task[t].pc = "edit"
    /\ LET T == task[t]
           G == GAMES[Guild]
       IN IF The(T.m) \notin channel
          THEN RepostFrom(t, T, G, <<IntId(T.todo[1])>>)
          ELSE RefreshLoop(t, T, G, Tail(T.todo))
    /\ UNCHANGED <<db, disk, channel, next_id>>

\* ------------------------------------------------------------------ repost

\* repost_proposal: after the fetch loop, delete what was fetched, or go
\* straight to the first send
AfterFetches(T, msgs) ==
    IF msgs # {} THEN [T EXCEPT !.pc = "delete_messages", !.msgs = msgs, !.k = 0, !.m = None]
    ELSE [T EXCEPT !.pc = "send", !.msgs = msgs, !.k = 1, !.m = None]

\* repost_proposal: `m = await proposal.fetch_message()` completes for the
\* k-th proposal of the range; `if m:` keeps the messages found
rp_fetch_message(t) ==
    /\ task[t].pc = "rp_fetch_message"
    /\ LET T == task[t]
           G == GAMES[Guild]
           r == FetchOutcome(T.m)
           msgs == IF r = "found" THEN T.msgs \cup T.m ELSE T.msgs
       IN IF r = "NotFound"
          THEN Finish(t, T, G, "NotFound")
          ELSE /\ UNCHANGED GAMES
               /\ task' = [task EXCEPT ![t] =
                             IF T.k < Len(T.rng)
                             THEN [T EXCEPT !.k = T.k + 1, !.msgs = msgs,
                                            !.m = message_id(G, T.rng[T.k + 1])]
                             ELSE AfterFetches(T, msgs)]
    /\ UNCHANGED <<db, disk, channel, next_id>>

\* repost_proposal: `await self.proposals_channel.delete_messages(...)` completes
delete_messages(t) ==
    /\ task[t].pc = "delete_messages"
    /\ channel' = channel \ task[t].msgs
    /\ task' = [task EXCEPT ![t].pc = "send", ![t].k = 1]
    /\ UNCHANGED <<GAMES, db, disk, next_id>>

\* A send whose message id is not stored on the proposal
keep_message_id(G, o, id) == G

\* `proposal.message_id = m.id` for proposal object o
set_message_id(G, o, id) == [G EXCEPT !.heap[o].message = Some(id)]

\* repost_proposal: `m = await self.proposals_channel.send(...)` completes for
\* the k-th proposal of the range and its id is stored on the proposal; after
\* the last one, save() and the call of refresh_proposal(*proposal_range)
\* follow without an await in between.  sent lists the messages the call
\* has created.
send(t) ==
    /\ task[t].pc = "send"
    /\ next_id <= MaxProposals + MaxSends
    /\ channel' = channel \cup {next_id}
    /\ next_id' = next_id + 1
    /\ LET T == [task[t] EXCEPT !.sent = Append(@, next_id)]
           G == set_message_id(GAMES[Guild], task[t].rng[task[t].k], next_id)
           a == assert_locked(G, t)
       IN IF T.k < Len(T.rng)
          THEN /\ GAMES' = (Guild :> G)
               /\ task' = [task EXCEPT ![t] = [T EXCEPT !.k = T.k + 1]]
               /\ UNCHANGED <<db, disk>>
          ELSE IF a # "ok"
          THEN Finish(t, T, G, a) /\ UNCHANGED <<db, disk>>
          ELSE /\ db' = export(G)
               /\ disk' = export(G)
               /\ RefreshFrom(t, T, G, [j \in 1..Len(T.rng) |-> IntId(T.lo + j - 1)])

\* ------------------------------------------------------------------ environment

DiscordAwaits ==
    {"fetch_message", "edit", "rp_fetch_message", "delete_messages", "send"}

\* The awaited Discord call raises discord.Forbidden, or the task is
\* cancelled at the await: the exception leaves the Game method.
await_raises(t, e) ==
    /\ task[t].pc \in DiscordAwaits
    /\ Finish(t, task[t], GAMES[Guild], e)
    /\ UNCHANGED <<db, disk, channel, next_id>>

\* Someone deletes a message of the proposals channel by hand
external_delete(id) ==
    /\ id \in channel
    /\ channel' = channel \ {id}
    /\ UNCHANGED <<GAMES, db, disk, next_id, task>>

\* ------------------------------------------------------------------ cog

\* cogs/proposals.py Voting.refresh_proposal: no `async with game`
Voting_refresh_proposal(t, nums) ==
    /\ task[t].pc = "ready" /\ ~task[t].held
    /\ IF nums = <<>>
       THEN /\ task' = [task EXCEPT ![t] =
                          [Idle EXCEPT !.pc = "done", !.call = "Voting_refresh_proposal",
                                       !.res = "ok"]]
            /\ UNCHANGED GAMES
       ELSE RefreshFrom(t, Calling(t, "Voting_refresh_proposal"), get_game, dedupe(nums))
    /\ UNCHANGED <<db, disk, channel, next_id>>

\* cogs/proposals.py Voting.repost_proposal: no `async with game`
Voting_repost_proposal(t, nums) ==
    /\ task[t].pc = "ready" /\ ~task[t].held
    /\ IF nums = <<>>
       THEN /\ task' = [task EXCEPT ![t] =
                          [Idle EXCEPT !.pc = "done", !.call = "Voting_repost_proposal",
                                       !.res = "ok"]]
            /\ UNCHANGED GAMES
       ELSE RepostFrom(t, Calling(t, "Voting_repost_proposal"), get_game, dedupe(nums))
    /\ UNCHANGED <<db, disk, channel, next_id>>

\* ------------------------------------------------------------------ remove command

GraceWindow == 21600    \* `60*60*6`

\* The users utils.is_bot_admin holds to be bot admins
Admins == {"u2"}

\* The values of the clock when the command runs: inside and outside the
\* window of every stored proposal
Nows == {MaxProposals + 1, MaxProposals + 1 + GraceWindow}

\* is_bot_admin(ctx.author), called without await: is_bot_admin is a
\* coroutine function (it is awaited in the vote command), so the call
\* returns a coroutine object and runs nothing
is_bot_admin(author) == [coroutine |-> "is_bot_admin", arg |-> author]

\* Truth value of what the `or` of the condition yields: a coroutine object
\* is true
truth(x) == x.coroutine = "is_bot_admin"

\* The condition of proposal_remove for one n, as Python evaluates it.
\* get_proposal(n) is None for an n out of range; for the author,
\* `datetime.utcnow().timestamp + 60*60*6` adds an int to a bound method;
\* UserInputError is not a name of the module.
remove_check_one(G, author, n, now) ==
    LET p == get_proposal(G, IntId(n))
    IN IF p = None THEN "AttributeError"
       ELSE IF G.heap[The(p)].author = author THEN "TypeError"
       ELSE IF ~truth(is_bot_admin(author)) THEN "NameError"
       ELSE "ok"

\* `for n in proposal_nums: if not (...): raise ...`: the first failure in
\* argument order, or "ok"
remove_check(G, author, nums, now) ==
    IF \A j \in DOMAIN nums : remove_check_one(G, author, nums[j], now) = "ok" THEN "ok"
    ELSE remove_check_one(G, author,
            nums[Min({j \in DOMAIN nums : remove_check_one(G, author, nums[j], now) # "ok"})],
            now)

\* The command of task t (record T) ends with outcome r, having called no
\* `async with`
command_ends(t, T, G, r) ==
    /\ GAMES' = (Guild :> G)
    /\ task' = [task EXCEPT ![t] =
                  [Idle EXCEPT !.pc = "done", !.call = T.call, !.args = T.args, !.res = r]]

RECURSIVE remove_each(_, _)
\* The proposals of ks removed from G, the highest first
remove_each(G, ks) ==
    IF ks = {} THEN G
    ELSE LET k == CHOOSE x \in ks : \A y \in ks : y <= x
         IN remove_each(Renumber(G, k), ks \ {k})

\* cogs/proposals.py Voting.proposal_remove, up to its first await: the
\* permission loop.  args holds the invoker, the numbers and the clock.
proposal_remove(t, author, nums, now) ==
    /\ task[t].pc = "ready" /\ ~task[t].held
    /\ LET T == [Calling(t, "proposal_remove") EXCEPT !.args = <<author, nums, now>>]
           G == get_game
           c == remove_check(G, author, nums, now)
       IN IF nums = <<>> THEN command_ends(t, T, G, "ok")
          ELSE IF c # "ok" THEN command_ends(t, T, G, c)
          ELSE /\ GAMES' = (Guild :> G)
               /\ task' = [task EXCEPT ![t] = [T EXCEPT !.pc = "react_yes_no"]]
    /\ UNCHANGED <<db, disk, channel, next_id>>

\* The confirmation message is sent, the invoker answers, the message is
\* edited.  On 'y' the handler calls game.remove_proposal(author, *nums),
\* without `async with game`: validation of every number, removal and
\* renumbering, save.
react_yes_no(t, response) ==
    /\ task[t].pc = "react_yes_no"
    /\ LET T == [task[t] EXCEPT !.call = "game_remove_proposal"]
           G == GAMES[Guild]
           nums == task[t].args[2]
           a == assert_locked(G, t)
           c == check_proposal(G, [j \in DOMAIN nums |-> IntId(nums[j])])
           G2 == remove_each(G, Range(nums))
       IN IF response # "y" THEN command_ends(t, task[t], G, "ok") /\ UNCHANGED <<db, disk>>
          ELSE IF a # "ok" THEN command_ends(t, T, G, a) /\ UNCHANGED <<db, disk>>
          ELSE IF c # "ok" THEN command_ends(t, T, G, c) /\ UNCHANGED <<db, disk>>
          ELSE command_ends(t, T, G2, "ok") /\ db' = export(G2) /\ disk' = export(G2)
    /\ UNCHANGED <<channel, next_id>>

\* ------------------------------------------------------------------ repost rules

\* The id of the message a rule has in the rules channel; root has none
RuleMessage(tag) == CASE tag = "a" -> 1 [] tag = "b" -> 2

\* The messages get_rule_messages collects
rule_messages(rules) == {RuleMessage(tag) : tag \in DOMAIN rules \ {"root"}}

\* A coroutine object that is created and not awaited runs none of its
\* body: what it would have sent is not sent
never_awaited(sends) == SubSeq(sends, 1, 0)

\* Game._repost_child_rules(parent): the rules a message is sent for, in
\* order.  `self.rules_channel.send(...)` and `self._repost_child_rules(rule)`
\* are called without await.
repost_child_rules(rules, parent) ==
    LET RECURSIVE each(_)
        each(cs) ==
            IF cs = <<>> THEN <<>>
            ELSE never_awaited(<<Head(cs)>>)
                   \o never_awaited(<<Head(cs)>>)
                   \o each(Tail(cs))
    IN each(rules[parent].children)

\* Game.repost_rules up to its first await
repost_rules(t) ==
    /\ task[t].pc = "ready"
    /\ LET G == get_game
           T == Calling(t, "repost_rules")
           a == assert_locked(G, t)
       IN IF a # "ok" THEN Finish(t, T, G, a)
          ELSE /\ GAMES' = (Guild :> G)
               /\ task' = [task EXCEPT ![t] = [T EXCEPT !.pc = "rr_delete_messages"]]
    /\ UNCHANGED <<db, disk, channel, next_id>>

\* The messages of all rules have been fetched and are deleted;
\* _repost_child_rules(self.root_rule) then runs to its end without
\* suspending, and repost_rules returns
rr_delete_messages(t) ==
    /\ task[t].pc = "rr_delete_messages"
    /\ LET G == GAMES[Guild]
           T == task[t]
           r == IF "root" \in DOMAIN G.rules THEN assert_locked(G, t) ELSE "AttributeError"
           sends == IF r = "ok" THEN repost_child_rules(G.rules, "root")
                    ELSE <<>>
       IN /\ channel' = (channel \ rule_messages(G.rules))
                            \cup {next_id + j - 1 : j \in DOMAIN sends}
          /\ next_id' = next_id + Len(sends)
          /\ GAMES' = (Guild :> (IF r # "ok" /\ T.held THEN aexit(G) ELSE G))
          /\ task' = [task EXCEPT ![t] =
                        [Idle EXCEPT !.pc = IF T.held /\ r = "ok" THEN "exit" ELSE "done",
                                     !.held = (T.held /\ r = "ok"),
                                     !.call = T.call, !.res = r, !.sent = sends]]
    /\ UNCHANGED <<db, disk>>

\* ------------------------------------------------------------------ quantity calls

\* The calls on quantities have no await.  A call of task t (record T) ends
\* with outcome r in game state G: an exception leaves the task's
\* `async with` block and ends the command; after a normal return the task
\* is ready for its next call.
Return(t, T, G, r) ==
    /\ GAMES' = (Guild :> (IF r # "ok" /\ T.held THEN aexit(G) ELSE G))
    /\ task' = [task EXCEPT ![t] =
                  [Idle EXCEPT !.pc = IF r = "ok" THEN "ready" ELSE "done",
                               !.held = (T.held /\ r = "ok"),
                               !.call = T.call,
                               !.args = T.args,
                               !.res = r]]

\* The task's command is over; it runs the next one
next_command(t) ==
    /\ task[t].pc = "done"
    /\ task' = [task EXCEPT ![t] = Idle]
    /\ UNCHANGED <<GAMES, db, disk, channel, next_id>>

\* QuantityManager.save: the 'quantities' document is replaced by the export
\* of the registry and flushed
save_quantities(G) ==
    /\ db' = [db EXCEPT !.quantities = export_quantities(G.quantities)]
    /\ disk' = [db EXCEPT !.quantities = export_quantities(G.quantities)]

\* A caller calls quantity.set(player, value) on the quantity named q
call_Quantity_set(t, q, player, value) ==
    /\ task[t].pc = "ready"
    /\ q \in DOMAIN get_game.quantities
    /\ Return(t, Calling(t, "Quantity_set"),
              [get_game EXCEPT !.quantities[q] = Quantity_set(@, player, value)], "ok")
    /\ UNCHANGED <<db, disk, channel, next_id>>

RECURSIVE set_each(_, _, _)
\* `for player, value in items: quantity.set(player, value)`, items being the
\* list players.sorted_items() returned and todo the players still to come
set_each(q, items, todo) ==
    IF todo = {} THEN q
    ELSE LET player == CHOOSE u \in todo : TRUE
         IN set_each(Quantity_set(q, player, items[player]), items, todo \ {player})

\* A change of default that leaves the stored players alone
default_only(q, new_default) == [q EXCEPT !.default_value = new_default]

\* set_quantity_default, between assert_locked and save
renormalize(q, new_default) ==
    set_each([q EXCEPT !.default_value = new_default], q.players, DOMAIN q.players)

\* QuantityManager.set_quantity_default(quantity, new_default)
set_quantity_default(t, q, new_default) ==
    /\ task[t].pc = "ready"
    /\ q \in DOMAIN get_game.quantities
    /\ LET G == get_game
           T == Calling(t, "set_quantity_default")
           a == assert_locked(G, t)
           G2 == [G EXCEPT !.quantities[q] = renormalize(@, new_default)]
       IN IF a # "ok" THEN Return(t, T, G, a) /\ UNCHANGED <<db, disk>>
          ELSE Return(t, T, G2, "ok") /\ save_quantities(G2)
    /\ UNCHANGED <<channel, next_id>>

\* ------------------------------------------------------------------ quantity registry

\* QuantityManager.get_quantity(name): the key of the quantity found, if any.
\* Names come first; among several quantities with the alias, the first in
\* the mapping's iteration order is returned, here any one of them.
get_quantity(qs, name) ==
    LET n == lower(name)
        byAlias == {k \in DOMAIN qs : n \in Range(qs[k].aliases)}
    IN IF n \in DOMAIN qs THEN Some(n)
       ELSE IF byAlias # {} THEN Some(CHOOSE k \in byAlias : TRUE)
       ELSE None

\* re.match(r'[0-9a-z][0-9a-z\-_]*', name): the pattern is matched at the
\* start of the string and need not reach its end
re_match(name) == name # <<>> /\ name[1] \in LowerAlnum

\* A check that accepts any name of the right form
check_format_only(qs, name, ignore) ==
    IF Len(name) > MaxNameLen THEN "ValueError"
    ELSE IF ~re_match(name) THEN "ValueError"
    ELSE "ok"

\* QuantityManager._check_quantity_name(name, ignore=...), ignore being the
\* key of a quantity or None
check_quantity_name(qs, name, ignore) ==
    IF Len(name) > MaxNameLen THEN "ValueError"
    ELSE IF ~re_match(name) THEN "ValueError"
    ELSE IF ~(ignore # None /\ name \in Range(qs[The(ignore)].aliases))
            /\ get_quantity(qs, name) # None THEN "ValueError"
    ELSE "ok"

\* `for name in names: self._check_quantity_name(name, ignore=ignore)`
check_each(qs, names, ignore) ==
    IF \E i \in DOMAIN names : check_quantity_name(qs, names[i], ignore) # "ok"
    THEN "ValueError" ELSE "ok"

\* list.remove(x): the list without the first occurrence of x
list_remove(xs, x) ==
    LET i == Min({j \in DOMAIN xs : xs[j] = x})
    IN SubSeq(xs, 1, i - 1) \o SubSeq(xs, i + 1, Len(xs))

\* A filing that leaves q under its old key as well
rekey_keeping_old(qs, old, new, q) ==
    [k \in DOMAIN qs \cup {new} |-> IF k \in {old, new} THEN q ELSE qs[k]]

\* The registry with the quantity at key old filed under key new as q
rekey(qs, old, new, q) ==
    [k \in (DOMAIN qs \ {old}) \cup {new} |-> IF k = new THEN q ELSE qs[k]]

\* A registry call of task t (record T) on game G: the lock check, then the
\* name check c, then the registry becomes qs2 and is saved
registry_call(t, T, G, c, qs2) ==
    LET a == assert_locked(G, t)
        G2 == [G EXCEPT !.quantities = qs2]
    IN IF a # "ok" THEN Return(t, T, G, a) /\ UNCHANGED <<db, disk>>
       ELSE IF c # "ok" THEN Return(t, T, G, c) /\ UNCHANGED <<db, disk>>
       ELSE Return(t, T, G2, "ok") /\ save_quantities(G2)

\* QuantityManager.add_quantity(quantity_name, aliases)
add_quantity(t, quantity_name, aliases) ==
    /\ task[t].pc = "ready"
    /\ LET G == get_game
           name == lower(quantity_name)
           als == [i \in DOMAIN aliases |-> lower(aliases[i])]
       IN registry_call(t, [Calling(t, "add_quantity") EXCEPT !.args = <<quantity_name, aliases>>],
                        G, check_each(G.quantities, <<name>> \o als, None),
                        rekey(G.quantities, name, name, Quantity(name, als)))
    /\ UNCHANGED <<channel, next_id>>

\* QuantityManager.rename_quantity(quantity, new_name), the quantity being
\* the one at key q
rename_quantity(t, q, new_name) ==
    /\ task[t].pc = "ready"
    /\ q \in DOMAIN get_game.quantities
    /\ LET G == get_game
           name == lower(new_name)
           old == G.quantities[q]
           als == IF name \in Range(old.aliases) THEN list_remove(old.aliases, name)
                  ELSE old.aliases
       IN registry_call(t, [Calling(t, "rename_quantity") EXCEPT !.args = <<q, new_name>>],
                        G, check_quantity_name(G.quantities, name, Some(q)),
                        rekey(G.quantities, old.name, name,
                              [old EXCEPT !.name = name, !.aliases = als]))
    /\ UNCHANGED <<channel, next_id>>

\* QuantityManager.remove_quantity(quantity)
remove_quantity(t, q) ==
    /\ task[t].pc = "ready"
    /\ q \in DOMAIN get_game.quantities
    /\ LET G == get_game
       IN registry_call(t, [Calling(t, "remove_quantity") EXCEPT !.args = <<q>>],
                        G, "ok",
                        [k \in DOMAIN G.quantities \ {G.quantities[q].name} |-> G.quantities[k]])
    /\ UNCHANGED <<channel, next_id>>

\* QuantityManager.set_quantity_aliases(quantity, new_aliases)
set_quantity_aliases(t, q, new_aliases) ==
    /\ task[t].pc = "ready"
    /\ q \in DOMAIN get_game.quantities
    /\ LET G == get_game
       IN registry_call(t, [Calling(t, "set_quantity_aliases") EXCEPT !.args = <<q, new_aliases>>],
                        G, check_each(G.quantities, new_aliases, Some(q)),
                        [G.quantities EXCEPT ![q].aliases = sorted(new_aliases)])
    /\ UNCHANGED <<channel, next_id>>

\* ------------------------------------------------------------------ game registry

Guilds == {Guild, "guild2"}

\* A get_game that builds a new Game on every call
construct_anew(g) ==
    [Game(db) EXCEPT !.instance = IF g \in DOMAIN GAMES THEN GAMES[g].instance + 1 ELSE 1]

\* `if guild.id not in _GAMES: _GAMES[guild.id] = Game(guild, 'ok')` and
\* `_GAMES[guild.id]`.  The store of every guild holds the document db.
get_game_of(g) == IF g \in DOMAIN GAMES THEN GAMES[g] ELSE Game(db)

\* A task calls get_game(guild) and ends its command.  There is no await in
\* get_game or in Game.__init__.  When _load_rule raises, the exception
\* leaves Game.__init__ and get_game before _GAMES is assigned.  args is
\* what the call returned: the guild and instance of the Game.
get_game_call(t, g) ==
    /\ task[t].pc = "ready" /\ ~task[t].held
    /\ IF g \notin DOMAIN GAMES /\ load_rules(db.rules).raised
       THEN /\ GAMES' = GAMES
            /\ task' = [task EXCEPT ![t] =
                          [Idle EXCEPT !.pc = "done", !.call = "get_game",
                                       !.res = "AttributeError"]]
       ELSE /\ GAMES' = [k \in DOMAIN GAMES \cup {g} |->
                            IF k = g THEN get_game_of(g) ELSE GAMES[k]]
            /\ task' = [task EXCEPT ![t] =
                          [Idle EXCEPT !.pc = "done", !.call = "get_game",
                                       !.res = "ok",
                                       !.args = <<g, get_game_of(g).instance>>]]
    /\ UNCHANGED <<db, disk, channel, next_id>>

\* ------------------------------------------------------------------ specs

\* Nothing is cached, every task is about to run its command, and the store
\* is one of `stores`
InitFrom(stores) ==
    /\ GAMES = <<>>
    /\ \E st \in stores : db = st /\ disk = st
    /\ channel = {The(db.proposals[i].message) :
                    i \in {j \in DOMAIN db.proposals : db.proposals[j].message # None}}
    /\ next_id = MaxProposals + 1
    /\ task = [t \in Tasks |-> Idle]

InitWith(lists) ==
    /\ GAMES = <<>>
    /\ \E ps \in lists : db = Store(ps) /\ disk = Store(ps)
    /\ channel = {The(db.proposals[i].message) :
                    i \in {j \in DOMAIN db.proposals : db.proposals[j].message # None}}
    /\ next_id = MaxProposals + 1
    /\ task = [t \in Tasks |-> Idle]

\* The store was written by save()
Init == InitWith(SavedLists)

\* Commands run as concurrent tasks of the event loop; messages of the
\* channel can be deleted by hand at any time.
Next ==
    \/ \E t \in Tasks :
        \/ aenter(t)
        \/ acquired(t)
        \/ leave(t)
        \/ save(t)
        \/ \E n \in Ids : remove_proposal(t, n)
        \/ \E ns \in ArgSeqs : refresh_proposal(t, ns)
        \/ \E ns \in ArgSeqs : repost_proposal(t, ns)
        \/ fetch_message(t)
        \/ edit(t)
        \/ rp_fetch_message(t)
        \/ delete_messages(t)
        \/ send(t)
        \/ \E e \in {"Forbidden", "CancelledError"} : await_raises(t, e)
        \/ \E nums \in IntArgSeqs : Voting_refresh_proposal(t, nums)
        \/ \E nums \in IntArgSeqs : Voting_repost_proposal(t, nums)
    \/ \E id \in channel : external_delete(id)

Spec == Init /\ [][Next]_vars

\* Lock, save and activity only: tasks that record activity and save
NextActivity ==
    \E t \in Tasks :
        \/ aenter(t)
        \/ acquired(t)
        \/ leave(t)
        \/ save(t)
        \/ \E u \in Users, now \in 1..MaxTime : record_activity(t, u, now)

SpecActivity == Init /\ [][NextActivity]_vars

\* The store holds any proposals list, numbered or not
InitLoad == InitWith(StoredLists(1..MaxProposals))

\* One task that loads the game and works on its proposals
NextLoad ==
    \E t \in {"t1"} :
        \/ aenter(t)
        \/ leave(t)
        \/ save(t)
        \/ \E n \in Ids : remove_proposal(t, n)
        \/ \E ns \in ArgSeqs : repost_proposal(t, ns)
        \/ rp_fetch_message(t)
        \/ delete_messages(t)
        \/ send(t)
        \/ fetch_message(t)
        \/ edit(t)

SpecLoad == InitLoad /\ [][NextLoad]_vars

\* ------------------------------------------------------------------ properties

LockErrors == {"AttributeError", "RuntimeError"}

\* No task holds the lock
NoHolder == Guild \notin DOMAIN GAMES \/ ~GAMES[Guild].lock.locked

\* C1: at most one task is between __aenter__ and __aexit__ at any time, and
\* the lock is locked while one is: a task that enters while another is
\* inside does not get in.
C1_MutualExclusion ==
    \A t \in Tasks :
        task[t].held =>
            /\ Guild \in DOMAIN GAMES
            /\ GAMES[Guild].lock.locked
            /\ \A u \in Tasks \ {t} : ~task[u].held

\* One task is inside its block and the other waits in __aenter__
C1_Witness ==
    \E t, u \in Tasks : task[t].held /\ task[u].pc = "acquire"

\* C2: a save() called while no task holds the lock, before the first
\* acquisition or after a release, raises and leaves the store as it was.
C2_SaveFailsUnlocked ==
    [][\A t \in Tasks :
         (NoHolder /\ save(t)) =>
            /\ task'[t].res \in LockErrors
            /\ db' = db
            /\ disk' = disk]_vars

\* A save() has failed after a release, the lock being free
C2_Witness ==
    \E t \in Tasks :
        /\ task[t].call = "save" /\ task[t].res = "RuntimeError"
        /\ NoHolder

\* C3: while task a is inside its block, a save() or record_activity() by a
\* task b that has not acquired the lock raises and changes neither the
\* activity map nor the store.
C3_NonHolderFails ==
    [][\A a, b \in Tasks :
         (/\ a # b /\ task[a].held /\ ~task[b].held
          /\ \/ save(b)
             \/ \E u \in Users, now \in 1..MaxTime : record_activity(b, u, now)) =>
            /\ task'[b].res \in LockErrors
            /\ GAMES'[Guild].player_activity = GAMES[Guild].player_activity
            /\ db' = db
            /\ disk' = disk]_vars

CogCalls == {"Voting_refresh_proposal", "Voting_repost_proposal"}

\* C4: a cog handler that is inside a mutating Game method (suspended at one
\* of its awaits) holds the lock in its own task.
C4_HandlersHoldLock ==
    \A t \in Tasks :
        (task[t].call \in CogCalls /\ task[t].pc \in DiscordAwaits) => task[t].held

\* The proposal at list position i-1 has n = i
Numbered(G) == \A i \in DOMAIN G.proposals : G.heap[G.proposals[i]].n = i

\* The same of the persisted list
StoreNumbered == \A i \in DOMAIN db.proposals : db.proposals[i].n = i

\* C5 as stated: in every state of a constructed Game, whatever list it was
\* constructed from, the proposal at position i-1 has n = i.
C5_NumberedAlways == Guild \in DOMAIN GAMES => Numbered(GAMES[Guild])

\* C5 amended: a Game constructed from a persisted list that is numbered
\* 1..len is numbered 1..len, and every operation keeps it so.
C5_NumberedIfStoredNumbered ==
    [][(IF Guild \in DOMAIN GAMES THEN Numbered(GAMES[Guild]) ELSE StoreNumbered)
         => (Guild \in DOMAIN GAMES' => Numbered(GAMES'[Guild]))]_vars

\* The second proposal loaded is now first, numbered 1, after a removal
C5_Witness ==
    /\ Guild \in DOMAIN GAMES
    /\ Len(GAMES[Guild].proposals) = 1
    /\ GAMES[Guild].proposals[1] = 2
    /\ GAMES[Guild].heap[2].n = 1
    /\ \E t \in Tasks : task[t].call = "remove_proposal" /\ task[t].res = "ok"

InvalidArgs(G, ns) ==
    \E j \in DOMAIN ns : ~ns[j].int \/ ns[j].v < 1 \/ ns[j].v > Len(G.proposals)

\* C7: refresh_proposal(ns) and repost_proposal(ns) with an id that is not an
\* integer or out of range raise (TypeError or ValueError once the lock check
\* has passed) before any await, leaving channel, message ids and store as
\* they were.
C7_ValidateBeforeEffects ==
    [][\A t \in Tasks, ns \in ArgSeqs :
         (/\ task[t].pc = "ready" /\ task'[t] # task[t]
          /\ InvalidArgs(get_game, ns)
          /\ \/ task'[t].call = "refresh_proposal" /\ refresh_proposal(t, ns)
             \/ task'[t].call = "repost_proposal" /\ repost_proposal(t, ns)) =>
            /\ task'[t].pc = "done"
            /\ task'[t].res \in LockErrors \cup {"TypeError", "ValueError"}
            /\ assert_locked(get_game, t) = "ok" => task'[t].res \in {"TypeError", "ValueError"}
            /\ GAMES'[Guild].heap = get_game.heap
            /\ GAMES'[Guild].proposals = get_game.proposals
            /\ UNCHANGED <<db, disk, channel, next_id>>]_vars

\* A refresh_proposal call has been refused for its ids
C7_Witness ==
    \E t \in Tasks :
        /\ task[t].call = "refresh_proposal"
        /\ task[t].res \in {"TypeError", "ValueError"}
        /\ task[t].pc = "done"

\* C8: a refresh_proposal call that finds the message of an id missing has it
\* and the later ones re-created by the repost: the NotFound never leaves
\* the call.
C8_RefreshRepostsMissing ==
    \A t \in Tasks :
        task[t].call \in {"refresh_proposal", "Voting_refresh_proposal"}
            => task[t].res # "NotFound"

RepostPcs == {"rp_fetch_message", "delete_messages", "send"}

C10_NoDeletedIdPersisted ==
    [][\A t \in Tasks :
         (/\ task[t].pc = "send"
          /\ task'[t].pc = "done"
          /\ task'[t].res \in {"Forbidden", "CancelledError"}) =>
            \A i \in DOMAIN db'.proposals :
                db'.proposals[i].message \cap task[t].msgs = {}]_vars

\* ------------------------------------------------------------------ quantity values

\* The store holds one quantity, "a", with nothing stored for any player
OneQuantity ==
    [k \in {<<"a">>} |-> Quantity_export(Quantity(<<"a">>, <<>>))]

InitValues == InitFrom({[Store(<<>>) EXCEPT !.quantities = OneQuantity]})

\* One task that sets values and defaults of the quantity, in and out of
\* `async with game`
NextValues ==
    \E t \in {"t1"} :
        \/ aenter(t)
        \/ leave(t)
        \/ next_command(t)
        \/ \E q \in {<<"a">>}, u \in Users, v \in Values : call_Quantity_set(t, q, u, v)
        \/ \E q \in {<<"a">>}, v \in Values : set_quantity_default(t, q, v)

SpecValues == InitValues /\ [][NextValues]_vars

\* No player stored for a quantity of G maps to the quantity's default
Sparse(G) ==
    \A q \in DOMAIN G.quantities :
        \A u \in DOMAIN G.quantities[q].players :
            ~NumEq(G.quantities[q].players[u], G.quantities[q].default_value)

\* C11: starting from no stored player, after any sequence of set and
\* set_quantity_default no stored player maps to the default value; a set of
\* the default value leaves the player out of storage, and get then returns
\* the default.
C11_SparseStorage ==
    /\ [](Guild \in DOMAIN GAMES => Sparse(GAMES[Guild]))
    /\ [][\A t \in Tasks, q \in {<<"a">>}, u \in Users, v \in Values :
            (/\ task[t].pc = "ready" /\ task'[t] # task[t]
             /\ NumEq(v, get_game.quantities[q].default_value)
             /\ call_Quantity_set(t, q, u, v)) =>
                /\ u \notin DOMAIN GAMES'[Guild].quantities[q].players
                /\ NumEq(Quantity_get(GAMES'[Guild].quantities[q], u),
                         get_game.quantities[q].default_value)]_vars

\* The default is now 1.0, set while u2 had 0.5 stored; nothing is stored for
\* u1 and get(u1) is the default
C11_Witness ==
    /\ Guild \in DOMAIN GAMES
    /\ GAMES[Guild].quantities[<<"a">>].default_value = FloatVal(2)
    /\ DOMAIN GAMES[Guild].quantities[<<"a">>].players = {"u2"}
    /\ GAMES[Guild].quantities[<<"a">>].players["u2"] = FloatVal(1)
    /\ Quantity_get(GAMES[Guild].quantities[<<"a">>], "u1") = FloatVal(2)
    /\ task["t1"].call = "set_quantity_default" /\ task["t1"].res = "ok"

\* ------------------------------------------------------------------ quantity registry calls

\* One task, an empty registry, and the four calls that change names
InitQuantity == InitFrom({Store(<<>>)})

NextQuantity ==
    \/ aenter("t1")
    \/ leave("t1")
    \/ next_command("t1")
    \/ \E n \in NameInputs, als \in AliasInputs : add_quantity("t1", n, als)
    \/ \E q \in DOMAIN get_game.quantities, n \in NameInputs : rename_quantity("t1", q, n)
    \/ \E q \in DOMAIN get_game.quantities : remove_quantity("t1", q)
    \/ \E q \in DOMAIN get_game.quantities, als \in AliasInputs :
            set_quantity_aliases("t1", q, als)

SpecQuantity == InitQuantity /\ [][NextQuantity]_vars

\* The names and aliases the quantities of qs carry
NamesOf(q) == {q.name} \cup Range(q.aliases)
Taken(qs) == DOMAIN qs \cup UNION {NamesOf(qs[k]) : k \in DOMAIN qs}

\* C12: add_quantity(name, aliases), called with the lock held, in which the
\* lower-cased name or a lower-cased alias equals a name or alias of a
\* quantity of the registry, raises ValueError and leaves the registry and
\* the persisted store as they were.
C12_AddCollisionFails ==
    [][(/\ task["t1"].pc = "ready"
        /\ task'["t1"].call = "add_quantity"
        /\ assert_locked(get_game, "t1") = "ok"
        /\ LET n == task'["t1"].args[1]
               als == task'["t1"].args[2]
           IN /\ ({lower(n)} \cup {lower(als[i]) : i \in DOMAIN als})
                     \cap Taken(get_game.quantities) # {}
              /\ add_quantity("t1", n, als)) =>
          /\ task'["t1"].res = "ValueError"
          /\ GAMES'[Guild].quantities = get_game.quantities
          /\ db' = db
          /\ disk' = disk]_vars

\* add_quantity("A", []) was refused while quantity "a" with alias "b" exists
C12_Witness ==
    /\ Guild \in DOMAIN GAMES
    /\ DOMAIN GAMES[Guild].quantities = {<<"a">>}
    /\ GAMES[Guild].quantities[<<"a">>].aliases = << <<"b">> >>
    /\ db.quantities = export_quantities(GAMES[Guild].quantities)
    /\ task["t1"].call = "add_quantity"
    /\ task["t1"].args = << <<"A">>, <<>> >>
    /\ task["t1"].res = "ValueError"

\* No string is carried twice: not by two quantities, not as a quantity's
\* name and alias, not twice in one alias list
Distinct(qs) ==
    /\ \A k1, k2 \in DOMAIN qs : k1 # k2 => NamesOf(qs[k1]) \cap NamesOf(qs[k2]) = {}
    /\ \A k \in DOMAIN qs : qs[k].name \notin Range(qs[k].aliases)
    /\ \A k \in DOMAIN qs : \A i, j \in DOMAIN qs[k].aliases :
            i # j => qs[k].aliases[i] # qs[k].aliases[j]

\* C13: after any sequence of add_quantity, rename_quantity,
\* set_quantity_aliases and remove_quantity calls on an initially empty
\* registry, the names and aliases of all quantities are pairwise distinct.
C13_NamesDistinct == Guild \in DOMAIN GAMES => Distinct(GAMES[Guild].quantities)

\* [0-9a-z\-_], as far as the characters used go
NameChars == LowerAlnum \cup {"-", "_"}

\* ^[0-9a-z][0-9a-z\-_]*$ and at most 32 characters
WellFormed(name) ==
    /\ Len(name) <= MaxNameLen
    /\ name # <<>>
    /\ name[1] \in LowerAlnum
    /\ \A i \in DOMAIN name : name[i] \in NameChars

\* C14: after any sequence of add_quantity, rename_quantity and
\* set_quantity_aliases calls on an initially empty registry, every stored
\* name and alias has at most 32 characters, all of them in [0-9a-z_-], the
\* first in [0-9a-z].
C14_NamesWellFormed ==
    Guild \in DOMAIN GAMES =>
        \A name \in Taken(GAMES[Guild].quantities) : WellFormed(name)

\* C15: rename_quantity(q, a), called with the lock held, where a is one of
\* q's own aliases, succeeds: afterwards the registry maps a to q and not q's
\* old name, q.name is a, a is not among q.aliases, and q's other aliases,
\* default and players are as before.
C15_RenameToOwnAlias ==
    [][(/\ task["t1"].pc = "ready"
        /\ task'["t1"].call = "rename_quantity"
        /\ assert_locked(get_game, "t1") = "ok"
        /\ LET q == task'["t1"].args[1]
               a == task'["t1"].args[2]
           IN /\ q \in DOMAIN get_game.quantities
              /\ a \in Range(get_game.quantities[q].aliases)
              /\ rename_quantity("t1", q, a)) =>
          LET q == task'["t1"].args[1]
              a == task'["t1"].args[2]
              old == get_game.quantities[q]
              qs == GAMES'[Guild].quantities
          IN /\ task'["t1"].res = "ok"
             /\ a \in DOMAIN qs
             /\ old.name \notin DOMAIN qs
             /\ qs[a].name = a
             /\ a \notin Range(qs[a].aliases)
             /\ qs[a].aliases = SelectSeq(old.aliases, LAMBDA x : x # a)
             /\ qs[a].default_value = old.default_value
             /\ qs[a].players = old.players]_vars

\* ------------------------------------------------------------------ rule loading

\* The flat rule documents: any entries for any of the tags, the entry of
\* root declaring no parent
RuleDocs ==
    UNION {{d \in [D -> RuleEntries] : "root" \in D => d["root"].parent = None}
           : D \in SUBSET RuleTags}

InitRules == InitFrom({[Store(<<>>) EXCEPT !.rules = d] : d \in RuleDocs})

NextRules ==
    \/ get_game_call("t1", Guild)
    \/ next_command("t1")

SpecRules == InitRules /\ [][NextRules]_vars

\* The retained rules whose children list names tag
ParentsOf(rules, tag) == {p \in DOMAIN rules : tag \in Range(rules[p].children)}

RECURSIVE Closure(_, _)
\* The retained rules reachable from those of S by children lists
Closure(rules, S) ==
    LET S2 == S \cup {c \in DOMAIN rules : ParentsOf(rules, c) \cap S # {}}
    IN IF S2 = S THEN S ELSE Closure(rules, S2)

\* The retained rules below tag
Below(rules, tag) == Closure(rules, Range(rules[tag].children) \cap DOMAIN rules)

\* C16: after loading any flat rule document, every retained Rule is
\* reachable from root by children lists, appears in the children list of
\* exactly one retained Rule (root in none), and no Rule is below itself.
C16_RulesFormTree ==
    Guild \in DOMAIN GAMES =>
        LET rules == GAMES[Guild].rules
        IN /\ DOMAIN rules \subseteq Closure(rules, {"root"} \cap DOMAIN rules)
           /\ \A tag \in DOMAIN rules :
                /\ Cardinality(ParentsOf(rules, tag)) = (IF tag = "root" THEN 0 ELSE 1)
                /\ tag \notin Below(rules, tag)

\* C17: after loading any flat rule document, every tag in a retained Rule's
\* children list is a retained Rule whose parent is that Rule; dropped and
\* missing entries are referenced by no retained Rule.
C17_NoBrokenLinks ==
    Guild \in DOMAIN GAMES =>
        LET rules == GAMES[Guild].rules
        IN \A p \in DOMAIN rules : \A c \in Range(rules[p].children) :
              c \in DOMAIN rules /\ rules[c].parent = Some(p)

\* C18: rule loading during Game construction raises no error, whatever the
\* flat rule document: get_game returns a Game.
C18_LoadNeverRaises ==
    \A t \in Tasks : task[t].call = "get_game" => task[t].res = "ok"

\* ------------------------------------------------------------------ game registry calls

\* Two tasks call get_game for either guild, again and again
NextRegistry ==
    \E t \in Tasks :
        \/ \E g \in Guilds : get_game_call(t, g)
        \/ next_command(t)

SpecRegistry == Init /\ [][NextRegistry]_vars

\* C19: whatever get_game calls the tasks make, one Game at most is built
\* per guild: every call returns the instance cached for its guild, which is
\* the first one built, and no entry of _GAMES is removed or replaced.
C19_OneGamePerGuild ==
    /\ [](\A t \in Tasks :
            (task[t].call = "get_game" /\ task[t].res = "ok") =>
                /\ task[t].args[1] \in DOMAIN GAMES
                /\ task[t].args[2] = GAMES[task[t].args[1]].instance
                /\ task[t].args[2] = 1)
    /\ [][\A g \in DOMAIN GAMES :
            g \in DOMAIN GAMES' /\ GAMES'[g].instance = GAMES[g].instance]_vars

\* Both tasks were returned the one Game of the first guild, and a Game of
\* the second guild is cached as well
C19_Witness ==
    /\ DOMAIN GAMES = Guilds
    /\ \A t \in Tasks :
          /\ task[t].call = "get_game"
          /\ task[t].res = "ok"
          /\ task[t].args = <<Guild, GAMES[Guild].instance>>

\* ------------------------------------------------------------------ export and reload

\* Rule documents: the default one, one whose rule b is listed by root and
\* by a, and one whose rule b is dropped by the loader
TreeDocs ==
    {DefaultRules,
     [k \in RuleTags |->
        CASE k = "root" -> [parent |-> None, children |-> <<"a", "b">>]
          [] k = "a" -> [parent |-> Some("root"), children |-> <<"b">>]
          [] k = "b" -> [parent |-> Some("root"), children |-> <<>>]],
     [k \in RuleTags |->
        CASE k = "root" -> [parent |-> None, children |-> <<"a", "b">>]
          [] k = "a" -> [parent |-> Some("root"), children |-> <<>>]
          [] k = "b" -> [parent |-> Some("a"), children |-> <<>>]]}

InitExport ==
    InitFrom({[Store(ps) EXCEPT !.rules = d] : ps \in SavedLists, d \in TreeDocs})

\* One task changes proposals, quantities and values, and saves
NextExport ==
    \/ aenter("t1")
    \/ leave("t1")
    \/ next_command("t1")
    \/ save("t1")
    \/ \E n \in 1..MaxProposals : remove_proposal("t1", IntId(n))
    \/ add_quantity("t1", <<"a">>, << <<"b">>, <<"a", "b">> >>)
    \/ \E q \in DOMAIN get_game.quantities : rename_quantity("t1", q, <<"b">>)
    \/ \E q \in DOMAIN get_game.quantities : remove_quantity("t1", q)
    \/ \E q \in DOMAIN get_game.quantities : set_quantity_aliases("t1", q, << <<"b">> >>)
    \/ \E q \in DOMAIN get_game.quantities, v \in {IntVal(1), FloatVal(1)} :
            call_Quantity_set("t1", q, "u1", v)
    \/ \E q \in DOMAIN get_game.quantities : set_quantity_default("t1", q, FloatVal(2))

SpecExport == InitExport /\ [][NextExport]_vars

NextRemove ==
    \E t \in Tasks :
        \/ aenter(t)
        \/ acquired(t)
        \/ leave(t)
        \/ next_command(t)
        \/ \E u \in Users, nums \in [1..1 -> 1..MaxProposals] \cup {<<>>, <<1, 2>>, <<2, 1>>},
              now \in Nows : proposal_remove(t, u, nums, now)
        \/ \E response \in {"y", "n"} : react_yes_no(t, response)

SpecRemove == Init /\ [][NextRemove]_vars

\* The invoker may remove proposal n of G at time now without privilege
MayRemove(G, author, n, now) ==
    /\ has_proposal(G, IntId(n))
    /\ G.heap[G.proposals[n]].author = author
    /\ now < G.heap[G.proposals[n]].timestamp + GraceWindow

\* C21: the remove command of an invoker without elevated privilege goes on
\* to the removal only if, for every requested proposal, the invoker is its
\* author and the time is within the grace window; otherwise it raises a
\* permission error and removes nothing.
C21_RemoveNeedsAuthorInWindow ==
    [][\A t \in Tasks :
          (/\ task[t].pc = "ready"
           /\ task'[t].call = "proposal_remove"
           /\ task'[t] # task[t]
           /\ task'[t].args[2] # <<>>
           /\ task'[t].args[1] \notin Admins) =>
              LET author == task'[t].args[1]
                  nums == task'[t].args[2]
                  now == task'[t].args[3]
                  permitted == \A j \in DOMAIN nums : MayRemove(get_game, author, nums[j], now)
              IN IF permitted THEN task'[t].pc = "react_yes_no"
                 ELSE /\ task'[t].pc = "done"
                      /\ task'[t].res = "UserInputError"
                      /\ GAMES'[Guild].proposals = get_game.proposals]_vars

\* ------------------------------------------------------------------ save calls

\* The keys Game.export writes
ExportKeys == {"proposals", "player_activity", "quantities", "rules"}

\* Stores that hold a key of an earlier snapshot which export no longer
\* writes
InitSave ==
    InitFrom({[k \in ExportKeys \cup {"legacy"} |->
                 IF k = "legacy" THEN <<>> ELSE Store(ps)[k]] : ps \in SavedLists})

SpecSave == InitSave /\ [][NextActivity]_vars

\* C22: no state between two steps shows a cleared or partial store, and
\* right after a save() that passed the lock check the store and its flushed
\* copy are the export of the Game, key for key.
C22_SaveReplacesStore ==
    /\ [](ExportKeys \subseteq DOMAIN db /\ disk = db)
    /\ [][\A t \in Tasks :
            (/\ task[t].pc = "ready"
             /\ task'[t].call = "save"
             /\ assert_locked(get_game, t) = "ok"
             /\ save(t)) =>
                /\ DOMAIN db' = ExportKeys
                /\ \A k \in ExportKeys : db'[k] = export(get_game)[k]
                /\ disk' = db'
                /\ GAMES'[Guild] = get_game]_vars

\* A save has removed the stale key and written an activity map that the
\* store did not hold
C22_Witness ==
    /\ \E t \in Tasks : task[t].call = "save" /\ task[t].res = "ok"
    /\ DOMAIN db = ExportKeys
    /\ db.player_activity # EmptyActivity
    /\ db = export(GAMES[Guild])

\* ------------------------------------------------------------------ quantity lookup

\* Names and aliases in lower, upper and mixed case
CaseInputs == {<<"a">>, <<"A">>, <<"b">>, <<"a", "B">>}

\* One task names quantities and their aliases in any case
NextLookup ==
    \/ aenter("t1")
    \/ leave("t1")
    \/ next_command("t1")
    \/ \E n \in CaseInputs, als \in {<<>>} \cup {<<a>> : a \in CaseInputs} :
            add_quantity("t1", n, als)
    \/ \E q \in DOMAIN get_game.quantities, n \in CaseInputs : rename_quantity("t1", q, n)
    \/ \E q \in DOMAIN get_game.quantities, als \in {<<>>} \cup {<<a>> : a \in CaseInputs} :
            set_quantity_aliases("t1", q, als)

SpecLookup == InitQuantity /\ [][NextLookup]_vars

\* str.upper(), character by character
UpperChar(c) == CASE c = "a" -> "A" [] c = "b" -> "B" [] OTHER -> c

\* The spellings of s in upper and lower case
CaseVariants(s) ==
    {v \in [DOMAIN s -> {"a", "b", "A", "B", "!"}] :
        \A i \in DOMAIN s : v[i] \in {LowerChar(s[i]), UpperChar(s[i])}}

\* C23: for every string s stored as a name or alias, get_quantity of any
\* upper/lower-case spelling of s returns a quantity that holds s, the one
\* named so if there is one; a string matching nothing returns None.
C23_LookupFindsStored ==
    Guild \in DOMAIN GAMES =>
        LET qs == GAMES[Guild].quantities
        IN /\ \A k \in DOMAIN qs : \A s \in NamesOf(qs[k]) : \A v \in CaseVariants(s) :
                /\ get_quantity(qs, v) # None
                /\ s \in NamesOf(qs[The(get_quantity(qs, v))])
                /\ lower(v) \in DOMAIN qs => get_quantity(qs, v) = Some(lower(v))
           /\ \A v \in CaseInputs :
                (\A k \in DOMAIN qs : \A s \in NamesOf(qs[k]) : v \notin CaseVariants(s))
                    => get_quantity(qs, v) = None

\* ------------------------------------------------------------------ repost rules calls

\* The rule documents that are trees: every entry is retained by the loader,
\* every rule but root is once in the children list of its declared parent
\* and in no other
TreeRuleDocs ==
    {d \in RuleDocs :
        /\ "root" \in DOMAIN d
        /\ ~load_rules(d).raised
        /\ DOMAIN load_rules(d).rules = DOMAIN d
        /\ \A p \in DOMAIN d :
              /\ Range(d[p].children) \subseteq DOMAIN d \ {"root"}
              /\ \A i, j \in DOMAIN d[p].children :
                    i # j => d[p].children[i] # d[p].children[j]
              /\ \A c \in Range(d[p].children) : d[c].parent = Some(p)}

\* A store with a tree of rules, each rule but root having its message in
\* the rules channel; in this specification channel is the rules channel
InitRepostRules ==
    /\ GAMES = <<>>
    /\ \E d \in TreeRuleDocs :
          /\ db = [Store(<<>>) EXCEPT !.rules = d]
          /\ disk = [Store(<<>>) EXCEPT !.rules = d]
          /\ channel = rule_messages(d)
    /\ next_id = MaxProposals + 1
    /\ task = [t \in Tasks |-> Idle]

NextRepostRules ==
    \E t \in Tasks :
        \/ aenter(t)
        \/ acquired(t)
        \/ leave(t)
        \/ repost_rules(t)
        \/ rr_delete_messages(t)

SpecRepostRules == InitRepostRules /\ [][NextRepostRules]_vars

RECURSIVE depth_first(_, _, _)
\* The rules below parent in depth-first order of the children lists, to
\* depth d
depth_first(rules, parent, d) ==
    LET RECURSIVE each(_)
        each(cs) ==
            IF cs = <<>> \/ d = 0 THEN <<>>
            ELSE <<Head(cs)>>
                   \o (IF Head(cs) \in DOMAIN rules
                       THEN depth_first(rules, Head(cs), d - 1) ELSE <<>>)
                   \o each(Tail(cs))
    IN each(rules[parent].children)


\* C24: when repost_rules, called with the lock held, has returned, the
\* messages the rules had are deleted and one new message has been sent for
\* every rule but root, in depth-first order of the children lists from root.
C24_RepostRulesSendsAll ==
    \A t \in Tasks :
        (task[t].call = "repost_rules" /\ task[t].res = "ok") =>
            /\ channel \cap rule_messages(GAMES[Guild].rules) = {}
            /\ task[t].sent = depth_first(GAMES[Guild].rules, "root", Cardinality(RuleTags))
            /\ Cardinality(channel) = Cardinality(DOMAIN GAMES[Guild].rules \ {"root"})

\* ------------------------------------------------------------------ lock progress

\* Two tasks take the lock again and again; inside the block they save or
\* remove a proposal, which raises for a number out of range
NextLive ==
    \E t \in Tasks :
        \/ aenter(t)
        \/ acquired(t)
        \/ leave(t)
        \/ save(t)
        \/ \E n \in Ids : remove_proposal(t, n)
        \/ next_command(t)

\* The event loop runs every task that is ready to run: a woken waiter
\* resumes, and a task inside its block reaches the end of the block
SpecLive ==
    /\ Init
    /\ [][NextLive]_vars
    /\ \A t \in Tasks : WF_vars(acquired(t)) /\ WF_vars(leave(t))

\* C25: every exit from an `async with` block, normal or by an exception,
\* leaves the lock released, and every task waiting in __aenter__
\* eventually holds the lock.
C25_WaitersAcquire ==
    /\ [][\A t \in Tasks :
            (task[t].held /\ ~task'[t].held) => ~GAMES'[Guild].lock.locked]_vars
    /\ \A t \in Tasks : (task[t].pc = "acquire") ~> task[t].held

\* t1 has left its block by an exception while t2 was waiting for the lock:
\* the lock is free and t2 is woken
C25_Witness ==
    /\ Guild \in DOMAIN GAMES
    /\ task["t2"].pc = "acquire"
    /\ "t2" \in GAMES[Guild].lock.woken
    /\ ~GAMES[Guild].lock.locked
    /\ task["t1"].call = "remove_proposal" /\ task["t1"].res = "ValueError"

\* C26: between any two steps of the event loop the owner stamp is set
\* exactly when the lock is held.
C26_StampIffLocked ==
    (get_game.owned_thread_id \in {get_ident(t) : t \in Tasks}) <=> get_game.lock.locked

\* The lock was released to a waiter that has not resumed yet: nobody holds
\* the lock and the stamp is cleared
C26_Witness ==
    /\ Guild \in DOMAIN GAMES
    /\ GAMES[Guild].lock.woken = {"t1"}
    /\ GAMES[Guild].lock.waiters = <<"t1">>
    /\ GAMES[Guild].owned_thread_id = "None"
    /\ task["t2"].call = "save"

\* ------------------------------------------------------------------ change of default

\* C27: set_quantity_default(q, d) by the lock owner keeps get(P) for every
\* player P with a stored value, removes from storage exactly the players
\* whose stored value equals d, and turns get(P) from the old default into d
\* for every player P with nothing stored.
C27_DefaultChangeFrame ==
    [][\A d \in Values :
        (/\ task["t1"].pc = "ready" /\ task'["t1"] # task["t1"]
         /\ assert_locked(get_game, "t1") = "ok"
         /\ set_quantity_default("t1", <<"a">>, d)) =>
            LET q == get_game.quantities[<<"a">>]
                q2 == GAMES'[Guild].quantities[<<"a">>]
            IN /\ task'["t1"].res = "ok"
               /\ \A P \in DOMAIN q.players :
                    NumEq(Quantity_get(q2, P), Quantity_get(q, P))
               /\ DOMAIN q2.players \subseteq DOMAIN q.players
               /\ DOMAIN q.players \ DOMAIN q2.players =
                    {P \in DOMAIN q.players : NumEq(q.players[P], d)}
               /\ \A P \in Users \ DOMAIN q.players :
                    /\ Quantity_get(q, P) = q.default_value
                    /\ Quantity_get(q2, P) = d]_vars

\* The default has become 1 while u1 had 0.5 stored and nothing was stored
\* for u2: u1 keeps 0.5 and get(u2) is 1
C27_Witness ==
    /\ Guild \in DOMAIN GAMES
    /\ task["t1"].call = "set_quantity_default" /\ task["t1"].res = "ok"
    /\ GAMES[Guild].quantities[<<"a">>].default_value = IntVal(1)
    /\ DOMAIN GAMES[Guild].quantities[<<"a">>].players = {"u1"}
    /\ Quantity_get(GAMES[Guild].quantities[<<"a">>], "u1") = FloatVal(1)
    /\ Quantity_get(GAMES[Guild].quantities[<<"a">>], "u2") = IntVal(1)

\* ------------------------------------------------------------------ refresh terminates

\* The messages the running calls have created
created == UNION {{task[t].sent[i] : i \in DOMAIN task[t].sent} : t \in Tasks}

\* One command that refreshes or reposts, inside `async with game` or not;
\* messages are deleted by hand, except those the call has created
NextRefresh ==
    \/ \E t \in {"t1"} :
        \/ aenter(t)
        \/ leave(t)
        \/ \E ns \in ArgSeqs : refresh_proposal(t, ns)
        \/ \E ns \in ArgSeqs : repost_proposal(t, ns)
        \/ fetch_message(t)
        \/ edit(t)
        \/ rp_fetch_message(t)
        \/ delete_messages(t)
        \/ send(t)
        \/ \E e \in {"Forbidden", "CancelledError"} : await_raises(t, e)
    \/ \E id \in channel \ created : external_delete(id)

\* Every awaited Discord call completes, and the event loop then resumes the
\* task
SpecRefresh ==
    /\ Init
    /\ [][NextRefresh]_vars
    /\ \A t \in {"t1"} :
        /\ WF_vars(fetch_message(t)) /\ WF_vars(edit(t))
        /\ WF_vars(rp_fetch_message(t)) /\ WF_vars(delete_messages(t))
        /\ WF_vars(send(t))

\* C28: while the messages a call has sent stay in the channel, a call of
\* refresh_proposal or repost_proposal ends, and the refresh that follows
\* the sends never enters repost_proposal again: a refresh reposts at most
\* once.
C28_RefreshTerminates ==
    /\ [][\A t \in Tasks :
            (task[t].pc \in {"fetch_message", "edit"} /\ task[t].sent # <<>>) =>
                task'[t].pc # "rp_fetch_message"]_vars
    /\ \A t \in Tasks :
          (task[t].call \in {"refresh_proposal", "repost_proposal"}) ~>
              (task[t].pc \in {"exit", "done"})

\* repost_proposal has sent two placeholders and its refresh has fetched the
\* second of them
C28_Witness ==
    /\ task["t1"].pc = "edit"
    /\ Len(task["t1"].sent) = 2
    /\ task["t1"].todo = <<2>>
    /\ task["t1"].m = Some(task["t1"].sent[2])

\* ------------------------------------------------------------------ registry keys

\* C29: after any sequence of add_quantity, rename_quantity, remove_quantity
\* and set_quantity_aliases calls on an empty registry, every key of the
\* registry maps to a quantity of that name; a quantity, having one name, is
\* then filed under one key only.
C29_KeysAreNames ==
    Guild \in DOMAIN GAMES =>
        \A k \in DOMAIN GAMES[Guild].quantities : GAMES[Guild].quantities[k].name = k

\* A quantity has been renamed while the registry holds another one
C29_Witness ==
    /\ Guild \in DOMAIN GAMES
    /\ task["t1"].call = "rename_quantity" /\ task["t1"].res = "ok"
    /\ Cardinality(DOMAIN GAMES[Guild].quantities) = 2
    /\ task["t1"].args[1] \notin DOMAIN GAMES[Guild].quantities

====
